---- MODULE Spec2Model ----
(***************************************************************************)
(* State-machine model of the CommonCrawl article loaders                  *)
(* (src/ccloaders/news.py, src/ccloaders/main.py).                         *)
(*                                                                         *)
(* Time.  A datetime is modelled as an integer TS(m, d): m is the calendar *)
(* month (3 = 2022-03 ...) and d the position inside the month (day and    *)
(* time of day together).  Integer order is datetime order, and the        *)
(* 14-digit timestamp of a segment file name uses the same encoding, so a  *)
(* digit string may also name a position no month has (strptime raises).   *)
(* Odd months are long (MaxDay positions), even months short (MaxDay - 1), *)
(* as March/May against April.                                             *)
(***************************************************************************)
EXTENDS Integers, Sequences, FiniteSets, TLC

MaxDay == 2
MaxRuns == 2
MaxRecs == 2

Months == 3..5
Stride == MaxDay + 2
TS(m, d) == m * Stride + d
Month(t) == t \div Stride
Day(t) == t % Stride
DaysIn(m) == IF m % 2 = 1 THEN MaxDay ELSE MaxDay - 1
Datetimes == {TS(m, d) : m \in Months, d \in 1..MaxDay} \ {TS(m, d) : m \in {x \in Months : x % 2 = 0}, d \in {MaxDay}}

\* Python values that are not datetimes
None == -1
NotADatetime == -2

IsDatetime(v) == v \in Datetimes

\* datetime.now() as read by the end_date setter: the last position of the
\* calendar, so that the latest datetime is "in the future" (>= now).
Now == TS(5, DaysIn(5))

(***************************************************************************)
(* Strings are sequences of symbols, so that fnmatch can be computed.      *)
(***************************************************************************)
RECURSIVE fnmatch(_, _)
\* fnmatch.fnmatch(name, pat) on a POSIX host: case-sensitive, anchored,
\* "*" matches any run of symbols, "?" exactly one.
fnmatch(name, pat) ==
    IF pat = <<>> THEN name = <<>>
    ELSE IF Head(pat) = "*"
         THEN fnmatch(name, Tail(pat)) \/ (name # <<>> /\ fnmatch(Tail(name), pat))
         ELSE /\ name # <<>>
              /\ (Head(pat) = "?" \/ Head(pat) = Head(name))
              /\ fnmatch(Tail(name), Tail(pat))

Str(s) == [isstr |-> TRUE, chars |-> s]
NotAStr == [isstr |-> FALSE, chars |-> <<>>]
List(items) == [islist |-> TRUE, items |-> items]
NotAList == [islist |-> FALSE, items |-> <<>>]

\* The header values the archive uses; NoHeader is get_header() returning None.
NoHeader == "<None>"
UrlNews == <<"https://x.com/", "news", "/a">>
UrlBlog == <<"https://x.com/", "blog", "/a">>

\* CONTENT_RE.match(content_string): the groups, or matched = FALSE.
CONTENT_RE(s) ==
    CASE s = "text/html; charset=UTF-8" -> [matched |-> TRUE, mime |-> "text/html", charset |-> "UTF-8"]
      [] s = "text/html; charset=utf-8" -> [matched |-> TRUE, mime |-> "text/html", charset |-> "utf-8"]
      [] s = "text/html;charset=utf-8" -> [matched |-> TRUE, mime |-> "text/html", charset |-> "utf-8"]
      [] s = "text/html; charset=ISO-8859-1" -> [matched |-> TRUE, mime |-> "text/html", charset |-> "ISO-8859-1"]
      [] s = "application/json; charset=utf-8" -> [matched |-> TRUE, mime |-> "application/json", charset |-> "utf-8"]
      [] s = "TEXT/HTML; charset=utf-8" -> [matched |-> TRUE, mime |-> "TEXT/HTML", charset |-> "utf-8"]
      [] OTHER -> [matched |-> FALSE, mime |-> "", charset |-> ""]

\* str.lower() on the charsets above
Lower(s) ==
    CASE s = "UTF-8" -> "utf-8"
      [] s = "ISO-8859-1" -> "iso-8859-1"
      [] OTHER -> s

SUPPORTED_LANGUAGES == {"en", "de"}

(***************************************************************************)
(* A WARC record as the loaders see it: the envelope, the two headers, and *)
(* what the three collaborators do with its payload (UTF-8 decoding,       *)
(* langdetect.detect, newspaper's Article.download / Article.parse).       *)
(***************************************************************************)
Rec(rt, uri, ct, payload, detect, extractor) ==
    [rec_type |-> rt, uri |-> uri, ctype |-> ct, payload |-> payload,
     detect |-> detect, extractor |-> extractor]

Url(u) == [present |-> TRUE, chars |-> u]
NoUrl == [present |-> FALSE, chars |-> <<>>]

HtmlUtf8 == "text/html; charset=UTF-8"
RGood == Rec("response", Url(UrlNews), HtmlUtf8, "utf8", "en", "parsed")
RNonHtml == Rec("response", Url(UrlNews), "application/json; charset=utf-8", "utf8", "en", "parsed")
RBadBytes == Rec("response", Url(UrlNews), HtmlUtf8, "invalid", "en", "parsed")
RNoLang == Rec("response", Url(UrlNews), HtmlUtf8, "utf8", "raise", "parsed")
RKlingon == Rec("response", Url(UrlNews), HtmlUtf8, "utf8", "tlh", "parsed")
RExtRaise == Rec("response", Url(UrlNews), HtmlUtf8, "utf8", "en", "raise_parse")
RUnparsed == Rec("response", Url(UrlNews), HtmlUtf8, "utf8", "en", "unparsed")
RBlog == Rec("response", Url(UrlBlog), HtmlUtf8, "utf8", "en", "parsed")

RecordKinds == {RGood, RNonHtml, RBadBytes, RNoLang, RKlingon, RExtRaise, RUnparsed, RBlog}

\* Records that differ in what the record filter looks at only.
ContentTypes ==
    {HtmlUtf8, "text/html; charset=utf-8", "text/html;charset=utf-8",
     "text/html; charset=ISO-8859-1", "application/json; charset=utf-8",
     "TEXT/HTML; charset=utf-8", "text/html", NoHeader}
FilterRecords ==
    {Rec(rt, uri, ct, "utf8", "en", "parsed") :
        rt \in {"response", "request"}, uri \in {Url(UrlNews), Url(UrlBlog), NoUrl},
        ct \in ContentTypes}

(***************************************************************************)
(* The remote archive: one listing per month (HTTP status and lines) and   *)
(* one segment per listed path (HTTP status and records).  It is chosen in *)
(* Init and never changes.                                                 *)
(***************************************************************************)
\* A listing line: a file name of the shape CC-NEWS-<14 digits>-<5 digits>
\* (time holds the 14 digits) or any other text.
Line(t) == [name |-> "CC-NEWS", time |-> t]
Junk == [name |-> "other", time |-> 0]

RECURSIVE Reverse(_)
Reverse(s) == IF s = <<>> THEN <<>> ELSE Append(Reverse(Tail(s)), Head(s))

PlainLines(m) == [d \in 1..DaysIn(m) |-> Line(TS(m, d))]

ListingLines(m, variant) ==
    CASE variant = "mixed" -> <<Junk>> \o Reverse(PlainLines(m))
      [] variant = "baddate" ->
            IF m = 5 THEN Append(PlainLines(m), Line(TS(m, 0))) ELSE PlainLines(m)
      [] variant = "single" -> IF m = 4 THEN <<Line(TS(m, 1))>> ELSE <<>>

Archive(badMonth, variant, badWarcs, body) ==
    [variant |-> variant,
     listing |-> [m \in Months |-> [ok |-> m # badMonth, lines |-> ListingLines(m, variant)]],
     warc |-> [t \in Datetimes |-> [ok |-> t \notin badWarcs, records |-> body]]]

RECURSIVE SeqsUpTo(_, _)
SeqsUpTo(S, n) ==
    IF n = 0 THEN {<<>>}
    ELSE LET shorter == SeqsUpTo(S, n - 1)
         IN shorter \cup {Append(q, x) : q \in shorter, x \in S}

Bodies == SeqsUpTo(RecordKinds, MaxRecs)

\* Transport scenarios: every segment holds one good record; a month's
\* listing or the latest segment of each month may answer with an error
\* status, or a listing may hold a line whose digits are no date.
CleanArchive == Archive(0, "mixed", {}, <<RGood>>)
IndexArchives ==
    {Archive(bm, "mixed", {}, <<RGood>>) : bm \in {0} \cup Months}
    \cup {Archive(0, "mixed", {TS(m, DaysIn(m)) : m \in Months}, <<RGood>>),
          Archive(4, "mixed", {TS(m, DaysIn(m)) : m \in Months}, <<RGood>>),
          Archive(0, "baddate", {}, <<RGood>>)}

\* Record scenarios: one segment in the archive, holding any records, or
\* one record with any headers.
RecordArchives ==
    {Archive(0, "single", {}, b) : b \in Bodies \cup {<<r>> : r \in FilterRecords}}

Archives == IndexArchives \cup RecordArchives

\* What the caller passes to download_articles.
AnyUrl == List(<<Str(<<"*">>)>>)
ValidPatterns == {AnyUrl,
                  List(<<Str(<<"*", "news", "*">>), Str(<<"*", "news", "/a">>)>>)}
InvalidPatterns == {NotAList, List(<<Str(<<"*">>), NotAStr>>)}
DateArgs == Datetimes \cup {NotADatetime}
\* <<patterns, start_date, end_date>>; the dates are looked at only after
\* the patterns are accepted, so bad patterns come with one window only.
\* The segments of the transport scenarios hold one record that every valid
\* pattern list lets through, so these are called with ["*"].
\* A position is half a day: a one-day window holds two positions.
Positions(s, e) == {t \in Datetimes : s <= t /\ t < e}
OneDay(s, e) == Cardinality(Positions(s, e)) = 2

\* Against a record scenario the caller asks for a window of at most one day
\* that holds the one segment.
ShortWindows ==
    {w \in Datetimes \X Datetimes :
        /\ w[1] <= TS(4, 1) /\ TS(4, 1) < w[2]
        /\ Cardinality(Positions(w[1], w[2])) <= 2}
Inputs(a) ==
    IF a.variant = "single"
    THEN {<<p, w[1], w[2]>> : p \in ValidPatterns, w \in ShortWindows}
    ELSE {<<AnyUrl, s, e>> : s \in DateArgs, e \in DateArgs}
         \cup {<<p, TS(3, 1), TS(4, 1)>> : p \in InvalidPatterns}
Callbacks == {"default", "sink", "raising_sink"}

\* The caller makes at most this many calls of download_articles: repeated
\* calls go to the archive without faults.
RunLimit(a) == IF a = CleanArchive THEN MaxRuns ELSE 1

VARIABLES
    archive,      \* the remote archive
    callback,     \* self.__article_callback: the default, or a caller's sink
    patterns,     \* self.__patterns
    start_date,   \* self.__start_date
    end_date,     \* self.__end_date
    extracted,    \* self.__extracted
    discarded,    \* self.__discarded
    errored,      \* self.__errored
    pc,           \* where download_articles stands: idle, listing, warc, record
    months,       \* the months rrule has still to yield
    filenames,    \* __retrieve_warc_paths: the lines gathered so far
    warc_paths,   \* download_articles: the filtered segment paths
    wi,           \* index of the segment being loaded
    ri,           \* index of the record being parsed
    search,       \* CC-MAIN: the index queries still to send, the results so far
    runs,         \* calls of download_articles made so far
    call,         \* history of the call in progress (arguments, requests, sink calls)
    last          \* history of the last finished call

vars == <<archive, callback, patterns, start_date, end_date, extracted, discarded,
          errored, pc, months, filenames, warc_paths, wi, ri, search, runs, call, last>>

config == <<patterns, start_date, end_date>>
counters == <<extracted, discarded, errored>>
locals == <<months, filenames, warc_paths, wi, ri, search>>

\* CCMainArticleLoader.search: queries holds the <<pattern, collection>>
\* pairs of product(patterns, collections) still to send, results the
\* search_results list, si the index of the result being downloaded.
NoSearch == [queries |-> <<>>, results |-> <<>>, si |-> 0]

NoArgs == [patterns |-> NotAList, start |-> None, end |-> None]
\* again: when the call repeats the call finished just before it (same
\* arguments, that call returned, the loader untouched in between), the
\* counters and the sink calls that call ended with.
NoAgain == [is |-> FALSE, exit |-> <<0, 0, 0>>, sunk |-> <<>>]
\* handed: the records passed to extract_article; invoked: those the
\* extractor was called on.  A record is named <<segment time, index>>, a
\* capture of the CC-MAIN index <<0, number>>.  queried: the index queries
\* sent; ranged: the captures range-fetched.
NoCall == [args |-> NoArgs, entry |-> <<0, 0, 0>>, listed |-> <<>>, fetched |-> <<>>,
           sunk |-> <<>>, records |-> 0, eligible |-> 0, unsupported |-> 0,
           handed |-> <<>>, invoked |-> <<>>,
           queried |-> <<>>, ranged |-> <<>>,
           again |-> NoAgain]
\* A finished call: outcome is "returned" or the exception raised, exit the
\* counters and stored the configuration it left behind.
NoDone == [call |-> NoCall, outcome |-> "none", exit |-> <<0, 0, 0>>,
           stored |-> <<List(<<>>), None, None>>]

(***************************************************************************)
(* The property setters: "ok", or the exception they raise.                *)
(***************************************************************************)
PatternsSetter(p) ==
    IF ~p.islist THEN "ValueError"
    ELSE IF \E i \in 1..Len(p.items) : ~p.items[i].isstr THEN "ValueError"
    ELSE "ok"

\* Mutant: the comparison with datetime.now() left out.
EndDateSetterAnyDatetime(v) ==
    IF ~IsDatetime(v) THEN "ValueError" ELSE "ok"

EndDateSetter(v) ==
    IF ~IsDatetime(v) THEN "ValueError"
    ELSE IF v >= Now THEN "ValueError"
    ELSE "ok"

\* start_date >= self.end_date with end_date still None is a TypeError.
StartDateSetter(v, end) ==
    IF ~IsDatetime(v) THEN "ValueError"
    ELSE IF end = None THEN "TypeError"
    ELSE IF v >= end THEN "ValueError"
    ELSE "ok"

(***************************************************************************)
(* Segment index.                                                          *)
(***************************************************************************)
RECURSIVE RruleFrom(_, _, _)
\* rrule(MONTHLY, dtstart, until=until): the same position in each following
\* month, months that lack the position skipped, up to and including until.
RruleFrom(m, d, until) ==
    IF TS(m, d) > until THEN <<>>
    ELSE (IF d <= DaysIn(m) THEN <<m>> ELSE <<>>) \o RruleFrom(m + 1, d, until)

Rrule(dtstart, until) == RruleFrom(Month(dtstart), Day(dtstart), until)

\* datetime.strptime(time, "%Y%m%d%H%M%S") succeeds
StrptimeOk(t) == Day(t) \in 1..DaysIn(Month(t))

\* Mutant: the end of the window taken as inclusive.
IsWithinDateClosedEnd(line, start, end) ==
    IF line.name # "CC-NEWS" THEN "False"
    ELSE IF ~StrptimeOk(line.time) THEN "ValueError"
    ELSE IF line.time >= start /\ line.time <= end THEN "True"
    ELSE "False"

IsWithinDate(line, start, end) ==
    IF line.name # "CC-NEWS" THEN "False"
    ELSE IF ~StrptimeOk(line.time) THEN "ValueError"
    ELSE IF line.time >= start /\ line.time < end THEN "True"
    ELSE "False"

\* Mutant: the paths kept come out latest listing line first.
FilterWarcPathsReversed(lines, start, end) ==
    [raised |-> \E i \in 1..Len(lines) : IsWithinDate(lines[i], start, end) = "ValueError",
     paths |-> Reverse(SelectSeq(lines, LAMBDA l : IsWithinDate(l, start, end) = "True"))]

\* __filter_warc_paths: filter() keeps the order of the lines.
FilterWarcPaths(lines, start, end) ==
    [raised |-> \E i \in 1..Len(lines) : IsWithinDate(lines[i], start, end) = "ValueError",
     paths |-> SelectSeq(lines, LAMBDA l : IsWithinDate(l, start, end) = "True")]

(***************************************************************************)
(* Record filter and extraction.                                           *)
(***************************************************************************)
\* Mutant: the charset is not compared.
IsValidRecordAnyCharset(record, pats) ==
    IF record.rec_type # "response" THEN FALSE
    ELSE IF ~record.uri.present \/ record.ctype = NoHeader THEN FALSE
    ELSE LET content == CONTENT_RE(record.ctype)
         IN IF ~content.matched \/ content.mime # "text/html"
            THEN FALSE
            ELSE \E i \in 1..Len(pats.items) : fnmatch(record.uri.chars, pats.items[i].chars)

\* __is_valid_record
IsValidRecord(record, pats) ==
    IF record.rec_type # "response" THEN FALSE
    ELSE IF ~record.uri.present \/ record.ctype = NoHeader THEN FALSE
    ELSE LET content == CONTENT_RE(record.ctype)
         IN IF ~content.matched \/ content.mime # "text/html"
                \/ Lower(content.charset) # "utf-8"
            THEN FALSE
            ELSE \E i \in 1..Len(pats.items) : fnmatch(record.uri.chars, pats.items[i].chars)

\* What handling one record does: the counter increments, whether the
\* caller's sink is entered, and the exception that leaves the loop ("none");
\* handed: extract_article was called, invoked: it called the extractor.
Effect(ext, dis, err, sink, raise) ==
    [ext |-> ext, dis |-> dis, err |-> err, sink |-> sink, raise |-> raise,
     handed |-> FALSE, invoked |-> FALSE]

\* The effect of a call of extract_article.
Handed(eff, invoked) == [eff EXCEPT !.handed = TRUE, !.invoked = invoked]

\* self.article_callback(article): the default callback is a method defined
\* without self, so calling it with the article raises TypeError.
CallbackRaises(cb) ==
    CASE cb = "default" -> "TypeError"
      [] cb = "raising_sink" -> "SinkError"
      [] OTHER -> "none"

\* Mutant: an exception of the extractor leaves extract_article.
ExtractArticlePropagates(language, extractor, cb) ==
    IF language \notin SUPPORTED_LANGUAGES
    THEN Handed(Effect(0, 1, 0, FALSE, "none"), FALSE)
    ELSE LET raised == extractor \in {"raise_download", "raise_parse"}
             is_parsed == extractor = "parsed"
         IN Handed(Effect(IF raised THEN 0 ELSE 1, 0, 0,
                          is_parsed /\ cb # "default",
                          IF raised THEN "ExtractorError"
                          ELSE IF is_parsed THEN CallbackRaises(cb) ELSE "none"),
                   TRUE)

\* Mutant: the language is not looked at.
ExtractArticleAnyLanguage(language, extractor, cb) ==
    LET raised == extractor \in {"raise_download", "raise_parse"}
        is_parsed == extractor = "parsed"
    IN Handed(Effect(IF raised THEN 0 ELSE 1, 0, IF raised THEN 1 ELSE 0,
                     is_parsed /\ cb # "default",
                     IF is_parsed THEN CallbackRaises(cb) ELSE "none"),
              TRUE)

\* Mutant: the callback is called inside the try block, so that what it
\* raises is caught and counted.
ExtractArticleSinkCaught(language, extractor, cb) ==
    IF language \notin SUPPORTED_LANGUAGES
    THEN Handed(Effect(0, 1, 0, FALSE, "none"), FALSE)
    ELSE LET is_parsed == extractor = "parsed"
             raised == \/ extractor \in {"raise_download", "raise_parse"}
                       \/ is_parsed /\ CallbackRaises(cb) # "none"
         IN Handed(Effect(IF extractor \in {"raise_download", "raise_parse"} THEN 0 ELSE 1,
                          0, IF raised THEN 1 ELSE 0,
                          is_parsed /\ cb # "default", "none"),
                   TRUE)

\* Mutant: extracted is incremented before parse(), so that a failure of
\* parse() is counted twice.
ExtractArticleCountsBeforeParse(language, extractor, cb) ==
    IF language \notin SUPPORTED_LANGUAGES
    THEN Handed(Effect(0, 1, 0, FALSE, "none"), FALSE)
    ELSE LET raised == extractor \in {"raise_download", "raise_parse"}
             is_parsed == extractor = "parsed"
         IN Handed(Effect(IF extractor = "raise_download" THEN 0 ELSE 1, 0,
                          IF raised THEN 1 ELSE 0,
                          is_parsed /\ cb # "default",
                          IF is_parsed THEN CallbackRaises(cb) ELSE "none"),
                   TRUE)

\* extract_article
ExtractArticle(language, extractor, cb) ==
    IF language \notin SUPPORTED_LANGUAGES
    THEN Handed(Effect(0, 1, 0, FALSE, "none"), FALSE)
    ELSE LET raised == extractor \in {"raise_download", "raise_parse"}
             is_parsed == extractor = "parsed"
         IN Handed(Effect(IF raised THEN 0 ELSE 1, 0, IF raised THEN 1 ELSE 0,
                          is_parsed /\ cb # "default",
                          IF is_parsed THEN CallbackRaises(cb) ELSE "none"),
                   TRUE)

\* Mutant: a record that fails the filter is skipped without being counted.
ParseRecordUncountedSkip(record, pats, cb) ==
    IF ~IsValidRecord(record, pats) THEN Effect(0, 0, 0, FALSE, "none")
    ELSE IF record.payload # "utf8" THEN Effect(0, 0, 1, FALSE, "none")
    ELSE IF record.detect = "raise" THEN Effect(0, 0, 0, FALSE, "LangDetectException")
    ELSE ExtractArticle(record.detect, record.extractor, cb)

\* Mutant: the loop itself drops a record of unsupported language.
ParseRecordLanguageInLoop(record, pats, cb) ==
    IF ~IsValidRecord(record, pats) THEN Effect(0, 1, 0, FALSE, "none")
    ELSE IF record.payload # "utf8" THEN Effect(0, 0, 1, FALSE, "none")
    ELSE IF record.detect = "raise" THEN Effect(0, 0, 0, FALSE, "LangDetectException")
    ELSE IF record.detect \notin SUPPORTED_LANGUAGES THEN Effect(0, 1, 0, FALSE, "none")
    ELSE ExtractArticle(record.detect, record.extractor, cb)

\* Mutant: a payload that is no UTF-8 raises out of the loop.
ParseRecordDecodeRaises(record, pats, cb) ==
    IF ~IsValidRecord(record, pats) THEN Effect(0, 1, 0, FALSE, "none")
    ELSE IF record.payload # "utf8" THEN Effect(0, 0, 0, FALSE, "UnicodeDecodeError")
    ELSE IF record.detect = "raise" THEN Effect(0, 0, 0, FALSE, "LangDetectException")
    ELSE ExtractArticle(record.detect, record.extractor, cb)

\* One iteration of the loop of __parse_records.
ParseRecord(record, pats, cb) ==
    IF ~IsValidRecord(record, pats) THEN Effect(0, 1, 0, FALSE, "none")
    ELSE IF record.payload # "utf8" THEN Effect(0, 0, 1, FALSE, "none")
    ELSE IF record.detect = "raise" THEN Effect(0, 0, 0, FALSE, "LangDetectException")
    ELSE ExtractArticle(record.detect, record.extractor, cb)

(***************************************************************************)
(* The state machine.                                                      *)
(***************************************************************************)
Init ==
    /\ archive \in Archives
    /\ callback \in (IF archive.variant = "single" THEN Callbacks ELSE {"sink"})
    /\ patterns = List(<<>>)
    /\ start_date = None
    /\ end_date = None
    /\ extracted = 0 /\ discarded = 0 /\ errored = 0
    /\ pc = "idle"
    /\ months = <<>> /\ filenames = <<>> /\ warc_paths = <<>> /\ wi = 0 /\ ri = 0
    /\ search = NoSearch
    /\ runs = 0
    /\ call = NoCall
    /\ last = NoDone

\* download_articles returns or raises: the call joins the history.
Finish(c, result, exit) ==
    /\ pc' = "idle"
    /\ months' = <<>> /\ filenames' = <<>> /\ warc_paths' = <<>> /\ wi' = 0 /\ ri' = 0
    /\ search' = NoSearch
    /\ call' = NoCall
    /\ last' = [call |-> c, outcome |-> result, exit |-> exit,
                stored |-> <<patterns', start_date', end_date'>>]

\* Mutant: the three arguments are validated first and stored only when
\* all of them are accepted.
DownloadArticlesAllOrNothing(p, s, e) ==
    /\ pc = "idle"
    /\ runs < RunLimit(archive)
    /\ runs' = runs + 1
    /\ LET pOk == PatternsSetter(p) = "ok"
           eOk == pOk /\ EndDateSetter(e) = "ok"
           sRes == StartDateSetter(s, IF eOk THEN e ELSE end_date)
           sOk == eOk /\ sRes = "ok"
           args == [patterns |-> p, start |-> s, end |-> e]
           repeats == /\ last.outcome = "returned"
                      /\ last.call.args = args
                      /\ last.exit = <<extracted, discarded, errored>>
                      /\ last.stored = <<patterns, start_date, end_date>>
           c == [NoCall EXCEPT !.args = args,
                               !.entry = <<extracted, discarded, errored>>,
                               !.again = IF repeats
                                         THEN [is |-> TRUE, exit |-> last.exit,
                                               sunk |-> last.call.sunk]
                                         ELSE NoAgain]
       IN /\ patterns' = IF sOk THEN p ELSE patterns
          /\ end_date' = IF sOk THEN e ELSE end_date
          /\ start_date' = IF sOk THEN s ELSE start_date
          /\ UNCHANGED <<archive, callback, counters>>
          /\ IF sOk
             THEN /\ pc' = "listing"
                  /\ months' = Rrule(s, e)
                  /\ filenames' = <<>>
                  /\ call' = c
                  /\ last' = NoDone
                  /\ UNCHANGED <<warc_paths, wi, ri, search>>
             ELSE Finish(c, IF eOk THEN sRes ELSE "ValueError",
                         <<extracted, discarded, errored>>)

\* download_articles, lines 397-399: the three setters, in the code's order.
\* A rejected call raises at once; an accepted one goes on to the listings.
DownloadArticles(p, s, e) ==
    /\ pc = "idle"
    /\ runs < RunLimit(archive)
    /\ runs' = runs + 1
    /\ LET pOk == PatternsSetter(p) = "ok"
           eOk == pOk /\ EndDateSetter(e) = "ok"
           sRes == StartDateSetter(s, IF eOk THEN e ELSE end_date)
           sOk == eOk /\ sRes = "ok"
           args == [patterns |-> p, start |-> s, end |-> e]
           repeats == /\ last.outcome = "returned"
                      /\ last.call.args = args
                      /\ last.exit = <<extracted, discarded, errored>>
                      /\ last.stored = <<patterns, start_date, end_date>>
           c == [NoCall EXCEPT !.args = args,
                               !.entry = <<extracted, discarded, errored>>,
                               !.again = IF repeats
                                         THEN [is |-> TRUE, exit |-> last.exit,
                                               sunk |-> last.call.sunk]
                                         ELSE NoAgain]
       IN /\ patterns' = IF pOk THEN p ELSE patterns
          /\ end_date' = IF eOk THEN e ELSE end_date
          /\ start_date' = IF sOk THEN s ELSE start_date
          /\ UNCHANGED <<archive, callback, counters>>
          /\ IF sOk
             THEN /\ pc' = "listing"
                  /\ months' = Rrule(s, e)
                  /\ filenames' = <<>>
                  /\ call' = c
                  /\ last' = NoDone
                  /\ UNCHANGED <<warc_paths, wi, ri, search>>
             ELSE Finish(c, IF eOk THEN sRes ELSE "ValueError",
                         <<extracted, discarded, errored>>)

\* Mutant: the body of the response is read whatever its status.
LoadWarcPathsIgnoringStatus(a, m) == a.listing[m].lines

\* __load_warc_paths: the lines of the month's listing, none on a bad status.
LoadWarcPathsOf(a, m) ==
    IF a.listing[m].ok THEN a.listing[m].lines ELSE <<>>

\* One turn of the loop of __retrieve_warc_paths: fetch the listing of the
\* next month; after the last month, filter the gathered lines and start on
\* the segments.
LoadWarcPaths ==
    /\ pc = "listing"
    /\ months # <<>>
    /\ LET m == Head(months)
           names == filenames \o LoadWarcPathsOf(archive, m)
           c == [call EXCEPT !.listed = Append(@, m)]
           f == FilterWarcPaths(names, start_date, end_date)
       IN /\ UNCHANGED <<archive, callback, config, counters, runs>>
          /\ IF Tail(months) # <<>>
             THEN /\ months' = Tail(months)
                  /\ filenames' = names
                  /\ call' = c
                  /\ UNCHANGED <<pc, warc_paths, wi, ri, search, last>>
             ELSE IF f.raised
             THEN Finish(c, "ValueError", <<extracted, discarded, errored>>)
             ELSE IF f.paths = <<>>
             THEN Finish(c, "returned", <<extracted, discarded, errored>>)
             ELSE /\ pc' = "warc"
                  /\ months' = <<>>
                  /\ filenames' = names
                  /\ warc_paths' = f.paths
                  /\ wi' = 1
                  /\ call' = c
                  /\ UNCHANGED <<ri, search, last>>

\* After segment wi is finished with: the next segment, or the call returns.
NextWarc(c) ==
    IF wi < Len(warc_paths)
    THEN /\ pc' = "warc"
         /\ wi' = wi + 1
         /\ ri' = 0
         /\ call' = c
         /\ UNCHANGED <<months, filenames, warc_paths, search, last>>
    ELSE Finish(c, "returned", <<extracted', discarded', errored'>>)

\* __load_warc: fetch one segment; a bad status skips it.
LoadWarc ==
    /\ pc = "warc"
    /\ LET t == warc_paths[wi].time
           c == [call EXCEPT !.fetched = Append(@, t)]
       IN /\ UNCHANGED <<archive, callback, config, counters, runs>>
          /\ IF archive.warc[t].ok /\ archive.warc[t].records # <<>>
             THEN /\ pc' = "record"
                  /\ ri' = 1
                  /\ call' = c
                  /\ UNCHANGED <<months, filenames, warc_paths, wi, search, last>>
             ELSE NextWarc(c)

\* One iteration of the loop of __parse_records on the open segment.
ParseRecords ==
    /\ pc = "record"
    /\ LET t == warc_paths[wi].time
           body == archive.warc[t].records
           record == body[ri]
           eff == ParseRecord(record, patterns, callback)
           valid == IsValidRecord(record, patterns)
           c == [call EXCEPT
                   !.sunk = IF eff.sink THEN Append(@, <<t, ri>>) ELSE @,
                   !.handed = IF eff.handed THEN Append(@, <<t, ri>>) ELSE @,
                   !.invoked = IF eff.invoked THEN Append(@, <<t, ri>>) ELSE @,
                   !.records = @ + 1,
                   !.eligible = IF valid THEN @ + 1 ELSE @,
                   !.unsupported = IF valid /\ record.payload = "utf8"
                                      /\ record.detect \notin SUPPORTED_LANGUAGES \cup {"raise"}
                                   THEN @ + 1 ELSE @]
       IN /\ extracted' = extracted + eff.ext
          /\ discarded' = discarded + eff.dis
          /\ errored' = errored + eff.err
          /\ UNCHANGED <<archive, callback, config, runs>>
          /\ IF eff.raise # "none"
             THEN Finish(c, eff.raise, <<extracted', discarded', errored'>>)
             ELSE IF ri < Len(body)
             THEN /\ ri' = ri + 1
                  /\ call' = c
                  /\ UNCHANGED <<pc, months, filenames, warc_paths, wi, search, last>>
             ELSE NextWarc(c)

\* Direct assignments to the properties are explored before the first call
\* of the transport scenarios.
AssignLimit(a) == IF a.variant = "single" THEN 0 ELSE 1

\* loader.start_date = v, by the caller before the first call
AssignStartDate(v) ==
    /\ pc = "idle" /\ runs < AssignLimit(archive)
    /\ start_date' = IF StartDateSetter(v, end_date) = "ok" THEN v ELSE start_date
    /\ UNCHANGED <<archive, callback, patterns, end_date, counters, pc, locals, runs, call, last>>

\* loader.end_date = v, by the caller before the first call
AssignEndDate(v) ==
    /\ pc = "idle" /\ runs < AssignLimit(archive)
    /\ end_date' = IF EndDateSetter(v) = "ok" THEN v ELSE end_date
    /\ UNCHANGED <<archive, callback, patterns, start_date, counters, pc, locals, runs, call, last>>

\* loader.reset_counts()
ResetCounts ==
    /\ pc = "idle"
    /\ extracted' = 0 /\ discarded' = 0 /\ errored' = 0
    /\ UNCHANGED <<archive, callback, config, pc, locals, runs, call, last>>

Next ==
    \/ \E in \in Inputs(archive) : DownloadArticles(in[1], in[2], in[3])
    \/ LoadWarcPaths
    \/ LoadWarc
    \/ ParseRecords
    \/ \E v \in DateArgs : AssignStartDate(v)
    \/ \E v \in DateArgs : AssignEndDate(v)
    \/ ResetCounts

Spec == Init /\ [][Next]_vars

\* download_articles is one synchronous call: once it is entered, each of
\* its steps is taken as soon as the one before it has ended.
FairSpec == Spec /\ WF_vars(LoadWarcPaths \/ LoadWarc \/ ParseRecords)

(***************************************************************************)
(* CCMainArticleLoader (src/ccloaders/main.py).  The remote side is the    *)
(* list of collections the constructor loaded, the CDX index server of     *)
(* each collection, and the captures the index points into.                *)
(***************************************************************************)
\* named: the name has the shape "<month> <year> Index" of COLLECTION_RE;
\* ok: the status its CDX server answers with.
Collection(id, named, year, ok) == [id |-> id, named |-> named, year |-> year, ok |-> ok]
Collections ==
    <<Collection("CC-MAIN-2022-21", TRUE, 2022, TRUE),
      Collection("CC-MAIN-2022-05", TRUE, 2022, FALSE),
      Collection("CC-MAIN-2021-49", TRUE, 2021, TRUE),
      Collection("CC-MAIN-2008-2009", FALSE, 2022, TRUE)>>
\* datetime.year: every datetime of the model lies in 2022.
Year(t) == 2022

\* One archived record: the record itself, what datetime.fromisoformat does
\* with its WARC-Date header ("ok"; "ValueError" for a value it cannot
\* parse, which on interpreters before 3.11 includes the Z suffix;
\* "TypeError" for a missing header), and the status of its range fetch.
\* Every capture belongs to the first collection and was crawled at CaptureTime.
Capture(rec, date, ok) == [rec |-> rec, date |-> date, ok |-> ok]
CaptureTime == TS(4, 1)
RLatin1 == Rec("response", Url(UrlNews), "text/html; charset=ISO-8859-1", "utf8", "en", "parsed")
CaptureKinds ==
    {Capture(r, "ok", TRUE) : r \in (RecordKinds \ {RNonHtml}) \cup {RLatin1}}
    \cup {Capture(RLatin1, "TypeError", TRUE), Capture(RGood, "ValueError", TRUE),
          Capture(RGood, "ok", FALSE)}
MainArchives ==
    {[variant |-> "cdx", collections |-> Collections, captures |-> cs] :
        cs \in SeqsUpTo(CaptureKinds, MaxRecs)}

\* The mime the index server has recorded for a Content-Type value.
Mime(ct) ==
    CASE ct = "application/json; charset=utf-8" -> "application/json"
      [] ct = NoHeader -> "unk"
      [] OTHER -> "text/html"

\* The answer of a collection's CDX server to the query of __search_payload:
\* the captures whose URL matches the pattern, of mime text/html, crawled
\* between from and to; nothing is read from an answer of bad status.
CdxHits(a, pattern, coll, from, to) ==
    IF ~coll.ok \/ coll.id # Collections[1].id THEN <<>>
    ELSE SelectSeq([i \in 1..Len(a.captures) |-> i],
                   LAMBDA i : /\ a.captures[i].rec.uri.present
                              /\ fnmatch(a.captures[i].rec.uri.chars, pattern.chars)
                              /\ Mime(a.captures[i].rec.ctype) = "text/html"
                              /\ from <= CaptureTime /\ CaptureTime <= to)

\* __filter_collections_by_dates
FilterCollectionsByDates(a, start, end) ==
    SelectSeq(a.collections,
              LAMBDA c : c.named /\ c.year >= Year(start) /\ c.year <= Year(end))

\* itertools.product(ps, cs) as a sequence
Product(ps, cs) ==
    [k \in 1..(Len(ps) * Len(cs)) |->
        <<ps[((k - 1) \div Len(cs)) + 1], cs[((k - 1) % Len(cs)) + 1]>>]

\* CCMainArticleLoader.__is_valid_record: no pattern is looked at.
MainIsValidRecord(record) ==
    IF record.rec_type # "response" THEN FALSE
    ELSE IF ~record.uri.present \/ record.ctype = NoHeader THEN FALSE
    ELSE LET content == CONTENT_RE(record.ctype)
         IN ~(~content.matched \/ content.mime # "text/html"
                \/ Lower(content.charset) # "utf-8")

\* CCMainArticleLoader.__parse_records on the one record of a byte range;
\* extract_article is the same code in both loaders.
MainParseRecords(cap, cb) ==
    IF cap.date # "ok" THEN Effect(0, 0, 0, FALSE, cap.date)
    ELSE IF ~MainIsValidRecord(cap.rec) THEN Effect(0, 1, 0, FALSE, "none")
    ELSE IF cap.rec.payload # "utf8" \/ cap.rec.detect = "raise"
    THEN Effect(0, 0, 1, FALSE, "none")
    ELSE ExtractArticle(cap.rec.detect, cap.rec.extractor, cb)

\* What the caller passes to CCMainArticleLoader.download_articles.
MainInputs ==
    {<<p, w[1], w[2]>> : p \in ValidPatterns, w \in ShortWindows}
    \cup {<<p, TS(3, 1), TS(4, 1)>> : p \in InvalidPatterns}
    \cup {<<AnyUrl, TS(4, 1), TS(4, 1)>>}

InitMain ==
    /\ archive \in MainArchives
    /\ callback \in Callbacks
    /\ patterns = List(<<>>)
    /\ start_date = None
    /\ end_date = None
    /\ extracted = 0 /\ discarded = 0 /\ errored = 0
    /\ pc = "idle"
    /\ months = <<>> /\ filenames = <<>> /\ warc_paths = <<>> /\ wi = 0 /\ ri = 0
    /\ search = NoSearch
    /\ runs = 0
    /\ call = NoCall
    /\ last = NoDone

\* download_articles and the first lines of search: the three setters, then
\* the collections of the window's years and the queries to send.
MainDownloadArticles(p, s, e) ==
    /\ pc = "idle"
    /\ runs < RunLimit(archive)
    /\ runs' = runs + 1
    /\ LET pOk == PatternsSetter(p) = "ok"
           eOk == pOk /\ EndDateSetter(e) = "ok"
           sRes == StartDateSetter(s, IF eOk THEN e ELSE end_date)
           sOk == eOk /\ sRes = "ok"
           c == [NoCall EXCEPT !.args = [patterns |-> p, start |-> s, end |-> e],
                               !.entry = <<extracted, discarded, errored>>]
           qs == Product(p.items, FilterCollectionsByDates(archive, s, e))
       IN /\ patterns' = IF pOk THEN p ELSE patterns
          /\ end_date' = IF eOk THEN e ELSE end_date
          /\ start_date' = IF sOk THEN s ELSE start_date
          /\ UNCHANGED <<archive, callback, counters>>
          /\ IF ~sOk
             THEN Finish(c, IF eOk THEN sRes ELSE "ValueError",
                         <<extracted, discarded, errored>>)
             ELSE IF qs = <<>>
             THEN Finish(c, "returned", <<extracted, discarded, errored>>)
             ELSE /\ pc' = "query"
                  /\ search' = [NoSearch EXCEPT !.queries = qs]
                  /\ call' = c
                  /\ last' = NoDone
                  /\ UNCHANGED <<months, filenames, warc_paths, wi, ri>>

\* One turn of the loop of search: one query to one collection's server;
\* after the last one download_articles starts on the results.
MainSearch ==
    /\ pc = "query"
    /\ LET q == Head(search.queries)
           results == search.results
                      \o CdxHits(archive, q[1], q[2], start_date, end_date)
           c == [call EXCEPT !.queried = Append(@, <<q[1].chars, q[2].id>>)]
       IN /\ UNCHANGED <<archive, callback, config, counters, runs>>
          /\ IF Tail(search.queries) # <<>>
             THEN /\ search' = [search EXCEPT !.queries = Tail(@), !.results = results]
                  /\ call' = c
                  /\ UNCHANGED <<pc, months, filenames, warc_paths, wi, ri, last>>
             ELSE IF results = <<>>
             THEN Finish(c, "returned", <<extracted, discarded, errored>>)
             ELSE /\ pc' = "range"
                  /\ search' = [queries |-> <<>>, results |-> results, si |-> 1]
                  /\ call' = c
                  /\ UNCHANGED <<months, filenames, warc_paths, wi, ri, last>>

\* __download_single_article: the range fetch of one search result and,
\* on a good status, __parse_records on its record.
DownloadSingleArticle ==
    /\ pc = "range"
    /\ LET id == search.results[search.si]
           cap == archive.captures[id]
           eff == IF cap.ok THEN MainParseRecords(cap, callback)
                  ELSE Effect(0, 0, 0, FALSE, "none")
           c == [call EXCEPT
                   !.ranged = Append(@, id),
                   !.records = IF cap.ok THEN @ + 1 ELSE @,
                   !.sunk = IF eff.sink THEN Append(@, <<0, id>>) ELSE @,
                   !.handed = IF eff.handed THEN Append(@, <<0, id>>) ELSE @,
                   !.invoked = IF eff.invoked THEN Append(@, <<0, id>>) ELSE @]
       IN /\ extracted' = extracted + eff.ext
          /\ discarded' = discarded + eff.dis
          /\ errored' = errored + eff.err
          /\ UNCHANGED <<archive, callback, config, runs>>
          /\ IF eff.raise # "none"
             THEN Finish(c, eff.raise, <<extracted', discarded', errored'>>)
             ELSE IF search.si < Len(search.results)
             THEN /\ search' = [search EXCEPT !.si = @ + 1]
                  /\ call' = c
                  /\ UNCHANGED <<pc, months, filenames, warc_paths, wi, ri, last>>
             ELSE Finish(c, "returned", <<extracted', discarded', errored'>>)

NextMain ==
    \/ \E in \in MainInputs : MainDownloadArticles(in[1], in[2], in[3])
    \/ MainSearch
    \/ DownloadSingleArticle
    \/ ResetCounts

SpecMain == InitMain /\ [][NextMain]_vars

(***************************************************************************)
(* Properties.                                                             *)
(***************************************************************************)
Sum3(c) == c[1] + c[2] + c[3]
Times(paths) == [i \in 1..Len(paths) |-> paths[i].time]
Finished == pc = "idle" /\ last.outcome # "none"

\* A valid configuration, as the specification lists it.
ConfigValid(a) ==
    /\ a.patterns.islist
    /\ \A i \in 1..Len(a.patterns.items) : a.patterns.items[i].isstr
    /\ IsDatetime(a.start) /\ IsDatetime(a.end)
    /\ a.start < a.end
    /\ a.end < Now

RECURSIVE OkLines(_)
\* The lines of the listings of these months that answer with success.
OkLines(ms) ==
    IF ms = <<>> THEN <<>>
    ELSE (IF archive.listing[Head(ms)].ok THEN archive.listing[Head(ms)].lines ELSE <<>>)
         \o OkLines(Tail(ms))

RECURSIVE RecordsServed(_)
\* The number of records in the segments, among these, that answer with success.
RecordsServed(ts) ==
    IF ts = <<>> THEN 0
    ELSE (IF archive.warc[Head(ts)].ok THEN Len(archive.warc[Head(ts)].records) ELSE 0)
         + RecordsServed(Tail(ts))

InWindow(t, a) == a.start <= t /\ t < a.end

\* C1: every path handed on as a segment, and every segment fetched, carries
\* a timestamp ts with start <= ts < end.
C1_SegmentsWithinWindow ==
    /\ \A i \in 1..Len(warc_paths) :
          warc_paths[i].name = "CC-NEWS"
          /\ start_date <= warc_paths[i].time /\ warc_paths[i].time < end_date
    /\ \A i \in 1..Len(call.fetched) : InWindow(call.fetched[i], call.args)
    /\ \A i \in 1..Len(last.call.fetched) : InWindow(last.call.fetched[i], last.call.args)

\* A segment has been fetched while the listings held a path stamped
\* exactly end_date, a later one, and a line that is no segment name.
C1_Witness ==
    /\ pc = "record"
    /\ \E i \in 1..Len(filenames) : filenames[i].name = "CC-NEWS" /\ filenames[i].time = end_date
    /\ \E i \in 1..Len(filenames) : filenames[i].name = "CC-NEWS" /\ filenames[i].time > end_date
    /\ \E i \in 1..Len(filenames) : filenames[i].name # "CC-NEWS"

MonthsOf(a) == [i \in 1..(Month(a.end) - Month(a.start) + 1) |-> Month(a.start) + i - 1]

\* C2: a call that returns has fetched one listing per calendar month, in
\* ascending order, from the month of start_date through the month of end_date.
C2_OneListingPerMonth ==
    last.outcome = "returned" => last.call.listed = MonthsOf(last.call.args)

\* C3: after validation and before the first fetch the three counters are zero.
C3_CountersZeroAtRunStart ==
    (pc = "listing" /\ call.listed = <<>>) =>
        (extracted = 0 /\ discarded = 0 /\ errored = 0)

\* C4: a call that repeats the call before it (same arguments, same archive)
\* ends with the same counters and the same sequence of sink invocations.
C4_RepeatedCallSameResult ==
    (Finished /\ last.outcome = "returned" /\ last.call.again.is) =>
        (last.exit = last.call.again.exit /\ last.call.sunk = last.call.again.sunk)

SunkNow == IF pc = "idle" THEN last.call.sunk ELSE call.sunk

\* C5: while a record is handled, the caller's sink is invoked if and only
\* if extracted is incremented.
C5_SinkIffExtracted ==
    [][(pc = "record" /\ callback # "default") =>
          ((Len(SunkNow') > Len(SunkNow)) <=> (extracted' > extracted))]_vars

\* C6 as claimed: after a run that returns, extracted + discarded + errored
\* equals the number of records the filter found eligible plus the number of
\* records of unsupported language.
C6_SumIsEligiblePlusUnsupported ==
    (Finished /\ last.outcome = "returned") =>
        Sum3(last.exit) = last.call.eligible + last.call.unsupported

\* C6 as amended: over a run that returns, extracted + discarded + errored
\* grows by the number of records of the segments fetched with success, each
\* record counted once, and discarded grows by the number of records that
\* fail the filter plus the number of records of unsupported language.
C6_EveryRecordCountedOnce ==
    (Finished /\ last.outcome = "returned") =>
        /\ Sum3(last.exit) - Sum3(last.call.entry) = RecordsServed(last.call.fetched)
        /\ last.exit[2] - last.call.entry[2] =
              (last.call.records - last.call.eligible) + last.call.unsupported

\* A run has returned after handling records that fail the filter and
\* records that pass it.
C6_Witness ==
    /\ Finished /\ last.outcome = "returned"
    /\ last.call.eligible >= 1
    /\ last.call.records > last.call.eligible

\* The segments the archive lists with a timestamp in the window.
ListedInWindow(a) ==
    {t \in Datetimes :
        /\ InWindow(t, a)
        /\ \E m \in Months : \E i \in 1..Len(archive.listing[m].lines) :
              archive.listing[m].ok /\ archive.listing[m].lines[i] = Line(t)}

GoodRecord(r, pats) ==
    /\ IsValidRecord(r, pats)
    /\ r.payload = "utf8" /\ r.detect \in SUPPORTED_LANGUAGES /\ r.extractor = "parsed"

\* C7: first call on a fresh loader with a sink, a one-day window, pattern
\* list ["*"], every listing and segment served, and one segment in the
\* window, whose records are e good ones and k that fail the filter: the
\* call returns with e sink invocations and counters (e, k, 0).
C7_OneSegmentRun ==
    \A t \in Datetimes :
        LET a == last.call.args
            body == archive.warc[t].records
            e == Cardinality({i \in 1..Len(body) : GoodRecord(body[i], a.patterns)})
            k == Cardinality({i \in 1..Len(body) : ~IsValidRecord(body[i], a.patterns)})
        IN (/\ Finished /\ runs = 1 /\ callback = "sink"
            /\ ConfigValid(a) /\ a.patterns = AnyUrl
            /\ OneDay(a.start, a.end)
            /\ \A m \in Months : archive.listing[m].ok
            /\ ListedInWindow(a) = {t} /\ archive.warc[t].ok
            /\ e + k = Len(body))
           => (/\ last.outcome = "returned"
               /\ Len(last.call.sunk) = e
               /\ last.exit = <<e, k, 0>>)

\* C8: a call with an invalid configuration raises ValueError with no
\* listing or segment fetched, no sink invoked and no counter changed, and
\* no run is ever in progress on an invalid configuration.
C8_InvalidConfigRaisesBeforeIO ==
    /\ pc # "idle" => ConfigValid(call.args)
    /\ (Finished /\ ~ConfigValid(last.call.args)) =>
          /\ last.outcome = "ValueError"
          /\ last.call.listed = <<>> /\ last.call.fetched = <<>> /\ last.call.sunk = <<>>
          /\ last.exit = last.call.entry

\* A call with start_date >= end_date has been rejected on a loader whose
\* counters were not zero.
C8_Witness ==
    /\ Finished /\ last.outcome = "ValueError"
    /\ IsDatetime(last.call.args.start) /\ IsDatetime(last.call.args.end)
    /\ last.call.args.start >= last.call.args.end
    /\ last.call.args.end < Now
    /\ Sum3(last.call.entry) > 0

\* C9: whenever both dates are set, start_date < end_date.
C9_StoredWindowOrdered ==
    (IsDatetime(start_date) /\ IsDatetime(end_date)) => start_date < end_date

\* C10: a bad status never ends a run.  Every month rrule yields is fetched
\* whatever the status of the months before it; a run that returns has
\* fetched exactly the in-window paths of the listings that answered with
\* success, in order, and counted exactly the records of the segments that
\* answered with success; a run that raises does so on a line whose digits
\* are no date or on a record of a segment that answered with success.
C10_BadStatusNotFatal ==
    (Finished /\ ConfigValid(last.call.args)) =>
        LET a == last.call.args
            lines == OkLines(Rrule(a.start, a.end))
            want == Times(SelectSeq(lines, LAMBDA l :
                        l.name = "CC-NEWS" /\ StrptimeOk(l.time) /\ InWindow(l.time, a)))
            got == last.call.fetched
        IN /\ last.call.listed = Rrule(a.start, a.end)
           /\ last.outcome = "returned" =>
                 /\ got = want
                 /\ Sum3(last.exit) - Sum3(last.call.entry) = RecordsServed(want)
           /\ last.outcome # "returned" =>
                 \/ /\ last.outcome = "ValueError"
                    /\ \E i \in 1..Len(lines) :
                          lines[i].name = "CC-NEWS" /\ ~StrptimeOk(lines[i].time)
                 \/ /\ last.outcome \in {"LangDetectException", "TypeError", "SinkError"}
                    /\ got # <<>> /\ archive.warc[got[Len(got)]].ok

\* A run has returned although a listing that was not the last one and a
\* segment that was not the last one answered with a bad status, and a
\* later segment was read.
C10_Witness ==
    /\ Finished /\ last.outcome = "returned"
    /\ \E i \in 1..Len(last.call.listed) :
          i < Len(last.call.listed) /\ ~archive.listing[last.call.listed[i]].ok
    /\ \E i \in 1..Len(last.call.fetched) :
          i < Len(last.call.fetched) /\ ~archive.warc[last.call.fetched[i]].ok
    /\ last.call.sunk # <<>>

(***************************************************************************)
(* Record handling of the CC-NEWS loader.                                  *)
(***************************************************************************)
\* The segment being streamed and the record the loop stands on (pc = "record").
CurrentBody == archive.warc[warc_paths[wi].time].records
CurrentRecord == CurrentBody[ri]
HandedNow == IF pc = "idle" THEN last.call.handed ELSE call.handed
InvokedNow == IF pc = "idle" THEN last.call.invoked ELSE call.invoked
NoCounterBut(i) ==
    /\ extracted' = extracted + (IF i = 1 THEN 1 ELSE 0)
    /\ discarded' = discarded + (IF i = 2 THEN 1 ELSE 0)
    /\ errored' = errored + (IF i = 3 THEN 1 ELSE 0)
\* The loop goes on: to the next record of the segment, or past its end to
\* the next segment or the normal return of the call.
LoopContinues ==
    IF ri < Len(CurrentBody)
    THEN pc' = "record" /\ wi' = wi /\ ri' = ri + 1
    ELSE \/ pc' = "warc" /\ wi' = wi + 1
         \/ pc' = "idle" /\ last'.outcome = "returned"

\* C11: an eligible record whose payload is no valid UTF-8 adds one to
\* errored and nothing to extracted and discarded, is not handed to
\* extraction, reaches no sink, and the loop goes on with the next record.
C11_DecodeFailureCounted ==
    [][(pc = "record" /\ IsValidRecord(CurrentRecord, patterns)
          /\ CurrentRecord.payload # "utf8") =>
            /\ NoCounterBut(3)
            /\ HandedNow' = HandedNow /\ InvokedNow' = InvokedNow /\ SunkNow' = SunkNow
            /\ LoopContinues]_vars

\* A run has returned from a segment whose first record would not decode
\* and whose second record reached the sink.
C11_Witness ==
    /\ Finished /\ last.outcome = "returned" /\ errored = 1
    /\ \E t \in Datetimes :
          /\ last.call.sunk = <<(<<t, 2>>)>>
          /\ IsValidRecord(archive.warc[t].records[1], patterns)
          /\ archive.warc[t].records[1].payload # "utf8"

\* C12: an eligible, decoded record on which language detection raises is
\* handled like a decode failure: one more in errored, nothing else counted,
\* no extraction, no sink, no exception out of the loop, and the loop goes on.
C12_DetectFailureCounted ==
    [][(pc = "record" /\ IsValidRecord(CurrentRecord, patterns)
          /\ CurrentRecord.payload = "utf8" /\ CurrentRecord.detect = "raise") =>
            /\ NoCounterBut(3)
            /\ HandedNow' = HandedNow /\ InvokedNow' = InvokedNow /\ SunkNow' = SunkNow
            /\ LoopContinues]_vars

\* The record the loop stands on is handed to extract_article in this step.
HandedHere == HandedNow' = Append(HandedNow, <<warc_paths[wi].time, ri>>)
ReachesExtractArticle ==
    /\ pc = "record" /\ IsValidRecord(CurrentRecord, patterns)
    /\ CurrentRecord.payload = "utf8" /\ CurrentRecord.detect # "raise"

\* C13: an exception of the extractor on a candidate of supported language
\* is caught: one more in errored, extracted and discarded unchanged, no
\* exception leaves extract_article, and the loop goes on.
C13_ExtractorFailureCaught ==
    [][(/\ ReachesExtractArticle
        /\ CurrentRecord.detect \in SUPPORTED_LANGUAGES
        /\ CurrentRecord.extractor \in {"raise_download", "raise_parse"}) =>
            /\ NoCounterBut(3)
            /\ HandedHere /\ SunkNow' = SunkNow
            /\ LoopContinues]_vars

\* A run has returned from a segment whose first record made the extractor
\* raise and whose second record reached the sink.
C13_Witness ==
    /\ Finished /\ last.outcome = "returned" /\ errored = 1
    /\ \E t \in Datetimes :
          /\ last.call.sunk = <<(<<t, 2>>)>>
          /\ last.call.invoked = <<(<<t, 1>>), <<t, 2>>>>
          /\ archive.warc[t].records[1].extractor = "raise_parse"

\* C14: a candidate of unsupported language adds one to discarded and
\* nothing to extracted and errored; the extractor is not invoked and the
\* sink is not called.
C14_UnsupportedLanguageDiscarded ==
    [][(/\ ReachesExtractArticle
        /\ CurrentRecord.detect \notin SUPPORTED_LANGUAGES) =>
            /\ NoCounterBut(2)
            /\ HandedHere /\ InvokedNow' = InvokedNow /\ SunkNow' = SunkNow
            /\ LoopContinues]_vars

\* A run has returned after extract_article was called on a record of
\* unsupported language, with the extractor never invoked.
C14_Witness ==
    /\ Finished /\ last.outcome = "returned" /\ discarded = 1
    /\ \E t \in Datetimes :
          /\ last.call.handed = <<(<<t, 1>>)>>
          /\ last.call.invoked = <<>>
          /\ archive.warc[t].records[1].detect \notin SUPPORTED_LANGUAGES

\* C15: an exception raised inside the caller's sink ends the call there
\* with that exception: it is not counted in errored, the counters keep the
\* values they had when the sink was called (extracted already counts the
\* record), and no later record or segment is touched.
C15_SinkExceptionPropagates ==
    [][(pc = "record" /\ callback = "raising_sink" /\ Len(SunkNow') > Len(SunkNow)) =>
            /\ NoCounterBut(1)
            /\ pc' = "idle" /\ last'.outcome = "SinkError"
            /\ last'.exit = <<extracted', discarded', errored'>>
            /\ last'.call.records = call.records + 1
            /\ last'.call.fetched = call.fetched]_vars

\* A call has been ended by the sink on the first of two records.
C15_Witness ==
    /\ Finished /\ last.outcome = "SinkError"
    /\ last.exit = <<1, 0, 0>>
    /\ last.call.records = 1
    /\ \E t \in Datetimes :
          last.call.sunk = <<(<<t, 1>>)>> /\ Len(archive.warc[t].records) = 2

\* The Content-Type values, among those the archive uses, of the shape
\* <mime>; charset=<charset> with mime text/html and charset utf-8 in any case.
HtmlUtf8Values ==
    {"text/html; charset=UTF-8", "text/html; charset=utf-8", "text/html;charset=utf-8"}
\* The record filter as the claim states it.
IsEligible(record, pats) ==
    /\ record.rec_type = "response"
    /\ record.uri.present
    /\ record.ctype # NoHeader
    /\ record.ctype \in HtmlUtf8Values
    /\ \E i \in 1..Len(pats.items) : fnmatch(record.uri.chars, pats.items[i].chars)
EligibleNow == IF pc = "idle" THEN last.call.eligible ELSE call.eligible

\* C16: the loop treats a record as eligible exactly when its kind is
\* response, both headers are present, the Content-Type is text/html with
\* charset utf-8 in any case, and the URL matches a pattern; any other record
\* is discarded without being handed to extraction, and an eligible one that
\* decodes and has a language is handed to it.
C16_FilterAsStated ==
    [][pc = "record" =>
          /\ (EligibleNow' = EligibleNow + 1) <=> IsEligible(CurrentRecord, patterns)
          /\ (EligibleNow' = EligibleNow) <=> ~IsEligible(CurrentRecord, patterns)
          /\ ~IsEligible(CurrentRecord, patterns) =>
                (NoCounterBut(2) /\ HandedNow' = HandedNow)
          /\ (/\ IsEligible(CurrentRecord, patterns)
              /\ CurrentRecord.payload = "utf8" /\ CurrentRecord.detect # "raise") =>
                HandedHere]_vars

\* A run with the patterns "*news*" and "*news/a" has found the record
\* https://x.com/news/a with text/html; charset=UTF-8 eligible.
C16_Witness ==
    /\ Finished /\ last.outcome = "returned" /\ last.call.eligible = 1
    /\ Len(patterns.items) = 2
    /\ \E t \in Datetimes :
          /\ last.call.sunk = <<(<<t, 1>>)>>
          /\ archive.warc[t].records[1].ctype = "text/html; charset=UTF-8"
          /\ archive.warc[t].records[1].uri = Url(UrlNews)

RECURSIVE PassingFrom(_, _, _)
\* The records of segment t, from the i-th on, that pass the filter, decode
\* and have a detected language.
PassingFrom(t, i, pats) ==
    LET body == archive.warc[t].records
    IN IF i > Len(body) THEN <<>>
       ELSE (IF /\ IsEligible(body[i], pats)
                /\ body[i].payload = "utf8" /\ body[i].detect # "raise"
             THEN <<(<<t, i>>)>> ELSE <<>>)
            \o PassingFrom(t, i + 1, pats)

RECURSIVE PassingIn(_, _)
\* The same over the segments ts that answered with success, in order.
PassingIn(ts, pats) ==
    IF ts = <<>> THEN <<>>
    ELSE (IF archive.warc[Head(ts)].ok THEN PassingFrom(Head(ts), 1, pats) ELSE <<>>)
         \o PassingIn(Tail(ts), pats)

\* C17: a run that returns has evaluated every record of every fetched
\* segment once and handed to extract_article, once each and in order,
\* exactly the records that pass the filter, decode and have a language.
C17_EachRecordHandedOnce ==
    (Finished /\ last.outcome = "returned") =>
        /\ last.call.records = RecordsServed(last.call.fetched)
        /\ last.call.handed = PassingIn(last.call.fetched, last.call.args.patterns)
        /\ \A i, j \in 1..Len(last.call.handed) :
              last.call.handed[i] = last.call.handed[j] => i = j

\* A run whose two patterns both match the URL of both records of the
\* segment has returned with each record handed on once.
C17_Witness ==
    /\ Finished /\ last.outcome = "returned"
    /\ Len(patterns.items) = 2
    /\ \A i \in 1..2 : fnmatch(UrlNews, patterns.items[i].chars)
    /\ \E t \in Datetimes :
          /\ last.call.handed = <<(<<t, 1>>), <<t, 2>>>>
          /\ \A i \in 1..2 : archive.warc[t].records[i].uri = Url(UrlNews)

(***************************************************************************)
(* Record handling of the CC-MAIN loader (under SpecMain).                 *)
(***************************************************************************)
RangedNow == IF pc = "idle" THEN last.call.ranged ELSE call.ranged
\* The capture whose range download_articles stands on (pc = "range").
CurrentCapture == archive.captures[search.results[search.si]]
\* Rules 1-4 of the record filter as the specification states them.
PassesRules1To4(record) ==
    /\ record.rec_type = "response"
    /\ record.uri.present
    /\ record.ctype # NoHeader
    /\ record.ctype \in HtmlUtf8Values
\* download_articles goes on to the next search result or returns.
MainLoopContinues ==
    IF search.si < Len(search.results)
    THEN pc' = "range" /\ search'.si = search.si + 1
    ELSE pc' = "idle" /\ last'.outcome = "returned"

\* C18: in a CC-MAIN run no archived record is range-fetched twice, handed
\* to extraction twice or passed to the sink twice.
C18_CaptureFetchedOnce ==
    /\ \A i, j \in 1..Len(RangedNow) : RangedNow[i] = RangedNow[j] => i = j
    /\ \A i, j \in 1..Len(HandedNow) : HandedNow[i] = HandedNow[j] => i = j
    /\ \A i, j \in 1..Len(SunkNow) : SunkNow[i] = SunkNow[j] => i = j

\* C19: a fetched byte range whose record fails one of the rules 1-4 adds
\* one to discarded and nothing to extracted and errored, reaches no sink,
\* raises nothing, and the run goes on to the next search result.
C19_MainFilterFailureDiscarded ==
    [][(pc = "range" /\ CurrentCapture.ok /\ ~PassesRules1To4(CurrentCapture.rec)) =>
            /\ NoCounterBut(2)
            /\ SunkNow' = SunkNow /\ HandedNow' = HandedNow
            /\ MainLoopContinues]_vars

(***************************************************************************)
(* The run as a whole.                                                     *)
(***************************************************************************)
\* Every segment name of the listings carries the digits of a date.
ListingsWellFormed ==
    \A m \in Months : \A i \in 1..Len(archive.listing[m].lines) :
        LET l == archive.listing[m].lines[i]
        IN l.name = "CC-NEWS" => StrptimeOk(l.time)

\* C20: with a sink that never raises and listings of well-formed names,
\* every run that has passed validation eventually returns normally,
\* whatever the status of each listing and segment and whatever each record
\* holds: no failure past validation ends the run.
C20_RunReachesDone ==
    (pc = "listing" /\ callback = "sink" /\ ListingsWellFormed)
        ~> (pc = "idle" /\ last.outcome = "returned")

(***************************************************************************)
(* Default callback, counters and order of the CC-NEWS loader.             *)
(***************************************************************************)
\* C21: a loader built without a callback uses a default that does nothing:
\* when extract_article calls it on a parsed article it returns without
\* raising, extracted goes up by one and the run goes on.
C21_DefaultCallbackReturns ==
    [][(/\ ReachesExtractArticle
        /\ callback = "default"
        /\ CurrentRecord.detect \in SUPPORTED_LANGUAGES
        /\ CurrentRecord.extractor = "parsed") =>
            /\ NoCounterBut(1)
            /\ LoopContinues]_vars

\* C22: whenever no record is being processed, and at the end of a run in
\* which the sink never raised, extracted equals the number of times the
\* sink was invoked since the counters were last zero (here: during the
\* first call), whatever the extractor did with each record.
C22_ExtractedIsSinkCount ==
    /\ (pc = "warc" /\ runs = 1 /\ callback = "sink")
          => extracted = Len(call.sunk)
    /\ (/\ Finished /\ runs = 1 /\ callback = "sink"
        /\ last.outcome = "returned"
        /\ last.exit = <<extracted, discarded, errored>>)
          => extracted = Len(last.call.sunk)

\* The segment lines a call is to fetch, as the listings give them: the
\* lines of the listings with a good status, month after month and line
\* after line, that name a segment stamped inside the window.
WantedPaths(listed, a) ==
    SelectSeq(OkLines(listed),
              LAMBDA l : l.name = "CC-NEWS" /\ InWindow(l.time, a))
\* Position pairs (segment position, record position) in lexicographic order.
Before(p, q) == p[1] < q[1] \/ (p[1] = q[1] /\ p[2] < q[2])
\* The sink invocations of a call as position pairs; a segment is found by
\* its place in the sequence of fetched segments.
SinkPositions(c) ==
    [i \in 1..Len(c.sunk) |->
        <<CHOOSE k \in 1..Len(c.fetched) : c.fetched[k] = c.sunk[i][1],
          c.sunk[i][2]>>]
Ascending(ps) == \A i, j \in 1..Len(ps) : i < j => Before(ps[i], ps[j])
Ordered(c) == Ascending(SinkPositions(c))

\* C23: processing is sequential and keeps the order of the listings: the
\* path list is the wanted lines in month order and line order, the
\* segments fetched so far are a prefix of it, every record of the earlier
\* segments has been processed before the next segment is fetched, records
\* are taken in stream order, and so the sink invocations are ordered by
\* (segment position, record position).
C23_SequentialInListingOrder ==
    /\ pc \in {"warc", "record"} =>
          /\ \A i, j \in 1..Len(call.listed) : i < j => call.listed[i] < call.listed[j]
          /\ warc_paths = WantedPaths(call.listed, call.args)
          /\ call.fetched = Times(SubSeq(warc_paths, 1, IF pc = "warc" THEN wi - 1 ELSE wi))
          /\ call.records = RecordsServed(Times(SubSeq(warc_paths, 1, wi - 1)))
                              + (IF pc = "record" THEN ri - 1 ELSE 0)
          /\ \A i \in 1..Len(call.sunk) :
                \/ call.sunk[i][1] \in {warc_paths[k].time : k \in 1..(wi - 1)}
                \/ pc = "record" /\ call.sunk[i][1] = warc_paths[wi].time
                                 /\ call.sunk[i][2] < ri
          /\ Ordered(call)
    /\ (Finished /\ last.outcome = "returned") =>
          /\ last.call.fetched = Times(WantedPaths(last.call.listed, last.call.args))
          /\ last.call.records = RecordsServed(last.call.fetched)
          /\ Ordered(last.call)

\* A run over two months has returned after fetching at least three
\* segments, the first stamped later than the second as the listing has
\* them, with the sink reached from two different segments.
C23_Witness ==
    /\ Finished /\ last.outcome = "returned"
    /\ Len(last.call.listed) >= 2
    /\ Len(last.call.fetched) >= 3
    /\ last.call.fetched[1] > last.call.fetched[2]
    /\ \E i, j \in 1..Len(last.call.sunk) : last.call.sunk[i][1] # last.call.sunk[j][1]

\* C24: __is_within_date answers with a boolean for every line of every
\* fetched listing and never raises, so a call with a valid configuration
\* never ends in a ValueError: such a line is dropped and the run goes on.
C24_AnyListingLineAnswered ==
    /\ pc \in {"listing", "warc", "record"} =>
          \A i \in 1..Len(filenames) :
             IsWithinDate(filenames[i], start_date, end_date) \in {"True", "False"}
    /\ (Finished /\ ConfigValid(last.call.args)) => last.outcome # "ValueError"

\* The iteration of __parse_records on the current record completes: no
\* exception leaves the loop.
Completes ==
    /\ pc = "record"
    /\ \/ pc' \in {"record", "warc"}
       \/ pc' = "idle" /\ last'.outcome = "returned"

\* The counter the claim names for the current record: 1 extracted,
\* 2 discarded, 3 errored.
CounterFor(record) ==
    IF ~IsValidRecord(record, patterns) THEN 2
    ELSE IF record.payload # "utf8" THEN 3
    ELSE IF record.detect \notin SUPPORTED_LANGUAGES THEN 2
    ELSE IF record.extractor \in {"raise_download", "raise_parse"} THEN 3
    ELSE 1

\* C25: every record whose processing completes adds exactly one to exactly
\* one of extracted, discarded and errored (filter rejection: discarded,
\* decode failure: errored, unsupported language: discarded, extractor
\* raised: errored, extractor returned: extracted), so while a run goes on
\* and when it returns the sum has grown by the number of records processed;
\* and no counter ever goes down except by reset_counts.
C25_OneCounterPerRecord ==
    [][/\ Completes => /\ NoCounterBut(CounterFor(CurrentRecord))
                       /\ Sum3(<<extracted', discarded', errored'>>)
                            = Sum3(<<extracted, discarded, errored>>) + 1
       /\ (pc # "idle" /\ (pc' # "idle" \/ last'.outcome = "returned")) =>
             LET c == IF pc' = "idle" THEN last'.call ELSE call'
             IN Sum3(<<extracted', discarded', errored'>>) = Sum3(c.entry) + c.records
       /\ (extracted' < extracted \/ discarded' < discarded \/ errored' < errored)
             => (pc = "idle" /\ pc' = "idle"
                  /\ extracted' = 0 /\ discarded' = 0 /\ errored' = 0)]_vars

\* A run has returned from a segment of two records with one of them
\* counted as errored and the other as extracted.
C25_Witness ==
    /\ Finished /\ last.outcome = "returned"
    /\ last.call.records = 2
    /\ last.call.entry = <<0, 0, 0>>
    /\ extracted = 1 /\ discarded = 0 /\ errored = 1

(***************************************************************************)
(* Arguments stored by a rejected call.                                    *)
(***************************************************************************)
\* What each setter accepts, as the specification lists it.
PatternsAccepted(p) == p.islist /\ \A i \in 1..Len(p.items) : p.items[i].isstr
EndAccepted(e) == IsDatetime(e) /\ e < Now
StartAccepted(s, e) == IsDatetime(s) /\ s < e

\* C26: download_articles validates and stores patterns, end_date and
\* start_date one at a time, in this order. A call rejected at start_date
\* leaves the new patterns and the new end_date stored and start_date as it
\* was; rejected at end_date, the new patterns stored and both dates as they
\* were; rejected at patterns, nothing changed. The counters and the
\* callback are unchanged in all three cases.
C26_RejectedCallStoresPrefix ==
    [][(pc = "idle" /\ runs' = runs + 1 /\ pc' = "idle") =>
          LET a == last'.call.args
          IN /\ last'.outcome \in {"ValueError", "TypeError"}
             /\ UNCHANGED <<extracted, discarded, errored, callback>>
             /\ IF ~PatternsAccepted(a.patterns)
                THEN UNCHANGED <<patterns, end_date, start_date>>
                ELSE IF ~EndAccepted(a.end)
                THEN patterns' = a.patterns /\ UNCHANGED <<end_date, start_date>>
                ELSE /\ ~StartAccepted(a.start, a.end)
                     /\ patterns' = a.patterns /\ end_date' = a.end
                     /\ UNCHANGED start_date]_vars

\* A second call was rejected at start_date: its patterns and end_date are
\* stored, while start_date is still the one of the call before, which no
\* longer lies before the new end_date.
C26_Witness ==
    /\ Finished /\ runs = 2
    /\ last.outcome = "ValueError"
    /\ patterns = last.call.args.patterns
    /\ end_date = last.call.args.end
    /\ IsDatetime(last.call.args.start)
    /\ start_date # last.call.args.start
    /\ IsDatetime(start_date) /\ start_date >= end_date

====
